---- MODULE Spec2Model ----
(***************************************************************************)
(* Guestbook backend (docker/backend/main.py): three FastAPI handlers,     *)
(* health, add_name and get_names, over one shared MongoDB collection.     *)
(* Handlers are plain `def` functions, so the framework runs them on a     *)
(* thread pool: requests interleave at the calls they make on the store.   *)
(***************************************************************************)
EXTENDS Integers, Sequences, FiniteSets, Bags, TLC

\* ---- bounds ------------------------------------------------------------
MaxReq == 3        \* requests served in one run

\* ---- text --------------------------------------------------------------
\* A str is a sequence of characters; Whitespace is what str.strip() removes
\* (of Python's whitespace characters, the space and the tab).
Whitespace == {" ", "\t"}

\* The request texts tried: empty, whitespace only, a bare name, a name
\* padded on the left, on the right and on both sides, a name with
\* whitespace inside.
Texts ==
    { <<>>, <<" ">>, <<" ", "\t">>,
      <<"a">>, <<" ", "a">>, <<"a", " ">>, <<"\t", "a", " ">>,
      <<"a", " ", "a">> }

RECURSIVE lstrip(_)
lstrip(s) == IF s = <<>> \/ Head(s) \notin Whitespace THEN s ELSE lstrip(Tail(s))

RECURSIVE rstrip(_)
rstrip(s) ==
    IF s = <<>> \/ s[Len(s)] \notin Whitespace THEN s
    ELSE rstrip(SubSeq(s, 1, Len(s) - 1))

\* str.strip(): leading and trailing whitespace removed
strip(s) == rstrip(lstrip(s))

\* Python truthiness of a str: `not s` is true exactly for the empty str
not(s) == Len(s) = 0

\* ---- state -------------------------------------------------------------
Req == 1..MaxReq

VARIABLES
    names_collection,   \* db["names"]: the documents, in natural order
    storeUp,            \* whether a call on the collection completes or raises
    pc,                 \* per request: "idle", "insert" (past the check), "done"
    route,              \* per request: the handler it was dispatched to
    entry,              \* per request: NameEntry.name of the body
    outcome,            \* per request: what the handler returned or raised
    attempts,           \* per request: insert_one calls issued
    inserted,           \* per request: _ids of the documents it wrote
    storeErr,           \* per request: store calls that raised
    inserts,            \* insertions that have taken effect so far
    seenAt              \* per request: value of inserts when its find ran

vars == <<names_collection, storeUp, pc, route, entry, outcome,
          attempts, inserted, storeErr, inserts, seenAt>>

Pending == [kind |-> "pending"]
Return(v) == [kind |-> "return", value |-> v]
\* raise HTTPException(status_code=400, detail="Name cannot be empty")
HTTPException400 ==
    [kind |-> "raise", exc |-> "HTTPException", status_code |-> 400,
     detail |-> "Name cannot be empty"]
\* an exception of the driver, which no handler catches
StoreError == [kind |-> "raise", exc |-> "PyMongoError"]

Init ==
    /\ names_collection = <<>>
    /\ storeUp = TRUE
    /\ pc = [r \in Req |-> "idle"]
    /\ route = [r \in Req |-> "none"]
    /\ entry = [r \in Req |-> <<>>]
    /\ outcome = [r \in Req |-> Pending]
    /\ attempts = [r \in Req |-> 0]
    /\ inserted = [r \in Req |-> {}]
    /\ storeErr = [r \in Req |-> 0]
    /\ inserts = 0
    /\ seenAt = [r \in Req |-> 0]

\* requests are numbered in the order they arrive
Arrives(r) == pc[r] = "idle" /\ (IF r = 1 THEN TRUE ELSE pc[r - 1] # "idle")

\* ---- the store ---------------------------------------------------------
\* A call on the collection is one step: it takes effect and returns, or it
\* raises and has no effect.
\* Collection.insert_one(doc): the driver adds a fresh _id, the document is
\* appended
\* replace_one({}, doc, upsert=True): the first record is overwritten
insert_one_replace(coll, id, doc) ==
    IF coll = <<>> THEN <<[_id |-> id, name |-> doc.name]>>
    ELSE [coll EXCEPT ![1] = [_id |-> id, name |-> doc.name]]

\* the document written twice
insert_one_twice(coll, id, doc) ==
    coll \o <<[_id |-> id, name |-> doc.name], [_id |-> id, name |-> doc.name]>>

\* a unique index on name: a name already stored is not stored again
insert_one_unique(coll, id, doc) ==
    IF \E i \in 1..Len(coll) : coll[i].name = doc.name THEN coll
    ELSE Append(coll, [_id |-> id, name |-> doc.name])

insert_one(coll, id, doc) == Append(coll, [_id |-> id, name |-> doc.name])

\* Collection.find({}, {"_id": 0, "name": 1}): every document, only `name`
find(coll) == [i \in 1..Len(coll) |-> [name |-> coll[i].name]]

\* the _id the driver generates: unique
NewId == inserts + 1

\* ---- handlers ----------------------------------------------------------
\* a health check that pings the store
health_ping(r) ==
    /\ Arrives(r)
    /\ route' = [route EXCEPT ![r] = "health"]
    /\ outcome' = [outcome EXCEPT ![r] =
                      IF storeUp THEN Return([status |-> "ok"]) ELSE StoreError]
    /\ pc' = [pc EXCEPT ![r] = "done"]
    /\ UNCHANGED <<names_collection, storeUp, entry, attempts, inserted,
                   storeErr, inserts, seenAt>>

\* return {"status": "ok"}
health(r) ==
    /\ Arrives(r)
    /\ route' = [route EXCEPT ![r] = "health"]
    /\ outcome' = [outcome EXCEPT ![r] = Return([status |-> "ok"])]
    /\ pc' = [pc EXCEPT ![r] = "done"]
    /\ UNCHANGED <<names_collection, storeUp, entry, attempts, inserted,
                   storeErr, inserts, seenAt>>

\* if not entry.name: the check without the strip
NameIsEmptyUnstripped(s) == not(s)

\* if not entry.name.strip()
NameIsEmpty(s) == not(strip(s))

\* the check made after the insertion instead of before it
add_name_check_late(r) ==
    /\ Arrives(r)
    /\ \E s \in Texts :
        /\ entry' = [entry EXCEPT ![r] = s]
        /\ IF not(strip(s))
           THEN /\ outcome' = [outcome EXCEPT ![r] = HTTPException400]
                /\ pc' = [pc EXCEPT ![r] = "done"]
                /\ names_collection' =
                       Append(names_collection, [_id |-> inserts + 1, name |-> strip(s)])
                /\ inserts' = inserts + 1
           ELSE /\ outcome' = outcome
                /\ pc' = [pc EXCEPT ![r] = "insert"]
                /\ UNCHANGED <<names_collection, inserts>>
    /\ route' = [route EXCEPT ![r] = "add_name"]
    /\ UNCHANGED <<storeUp, attempts, inserted, storeErr, seenAt>>

\* add_name, up to the insert_one call
add_name_check(r) ==
    /\ Arrives(r)
    /\ \E s \in Texts :
        /\ entry' = [entry EXCEPT ![r] = s]
        /\ IF NameIsEmpty(s)
           THEN /\ outcome' = [outcome EXCEPT ![r] = HTTPException400]
                /\ pc' = [pc EXCEPT ![r] = "done"]
           ELSE /\ outcome' = outcome
                /\ pc' = [pc EXCEPT ![r] = "insert"]
    /\ route' = [route EXCEPT ![r] = "add_name"]
    /\ UNCHANGED <<names_collection, storeUp, attempts, inserted,
                   storeErr, inserts, seenAt>>

\* {"name": entry.name.strip()}
NameDoc(s) == [name |-> strip(s)]

\* the response echoing the request text as sent
AddedPayloadRaw(s) == [message |-> "Name added", name |-> s]

\* {"message": "Name added", "name": entry.name.strip()}
AddedPayload(s) == [message |-> "Name added", name |-> strip(s)]

\* the store's exception swallowed: the success payload returned regardless
add_name_insert_swallow(r) ==
    /\ pc[r] = "insert"
    /\ attempts' = [attempts EXCEPT ![r] = @ + 1]
    /\ pc' = [pc EXCEPT ![r] = "done"]
    /\ outcome' = [outcome EXCEPT ![r] = Return(AddedPayload(entry[r]))]
    /\ IF storeUp
       THEN /\ names_collection' = insert_one(names_collection, NewId, NameDoc(entry[r]))
            /\ inserted' = [inserted EXCEPT ![r] = @ \cup {NewId}]
            /\ inserts' = inserts + 1
            /\ UNCHANGED storeErr
       ELSE /\ storeErr' = [storeErr EXCEPT ![r] = @ + 1]
            /\ UNCHANGED <<names_collection, inserted, inserts>>
    /\ UNCHANGED <<storeUp, route, entry, seenAt>>

\* add_name, from the insert_one call to the return
add_name_insert(r) ==
    /\ pc[r] = "insert"
    /\ attempts' = [attempts EXCEPT ![r] = @ + 1]
    /\ pc' = [pc EXCEPT ![r] = "done"]
    /\ IF storeUp
       THEN /\ names_collection' = insert_one(names_collection, NewId, NameDoc(entry[r]))
            /\ inserted' = [inserted EXCEPT ![r] = @ \cup {NewId}]
            /\ inserts' = inserts + 1
            /\ outcome' = [outcome EXCEPT ![r] = Return(AddedPayload(entry[r]))]
            /\ UNCHANGED storeErr
       ELSE /\ storeErr' = [storeErr EXCEPT ![r] = @ + 1]
            /\ outcome' = [outcome EXCEPT ![r] = StoreError]
            /\ UNCHANGED <<names_collection, inserted, inserts>>
    /\ UNCHANGED <<storeUp, route, entry, seenAt>>

\* {"names": [n["name"] for n in names]}
NamesPayload(names) == [names |-> [i \in 1..Len(names) |-> names[i].name]]

\* an empty result reported as an error
get_names_404(r) ==
    /\ Arrives(r)
    /\ route' = [route EXCEPT ![r] = "get_names"]
    /\ pc' = [pc EXCEPT ![r] = "done"]
    /\ seenAt' = [seenAt EXCEPT ![r] = inserts]
    /\ IF storeUp
       THEN /\ outcome' = [outcome EXCEPT ![r] =
                   IF names_collection = <<>>
                   THEN [kind |-> "raise", exc |-> "HTTPException",
                         status_code |-> 404, detail |-> "No names"]
                   ELSE Return(NamesPayload(find(names_collection)))]
            /\ UNCHANGED storeErr
       ELSE /\ storeErr' = [storeErr EXCEPT ![r] = @ + 1]
            /\ outcome' = [outcome EXCEPT ![r] = StoreError]
    /\ UNCHANGED <<names_collection, storeUp, entry, attempts, inserted, inserts>>

\* a listing that takes the oldest record out of the collection
get_names_consume(r) ==
    /\ Arrives(r)
    /\ route' = [route EXCEPT ![r] = "get_names"]
    /\ pc' = [pc EXCEPT ![r] = "done"]
    /\ seenAt' = [seenAt EXCEPT ![r] = inserts]
    /\ IF storeUp
       THEN /\ outcome' = [outcome EXCEPT ![r] = Return(NamesPayload(find(names_collection)))]
            /\ names_collection' =
                   IF names_collection = <<>> THEN <<>> ELSE Tail(names_collection)
            /\ UNCHANGED storeErr
       ELSE /\ storeErr' = [storeErr EXCEPT ![r] = @ + 1]
            /\ outcome' = [outcome EXCEPT ![r] = StoreError]
            /\ UNCHANGED names_collection
    /\ UNCHANGED <<storeUp, entry, attempts, inserted, inserts>>

get_names(r) ==
    /\ Arrives(r)
    /\ route' = [route EXCEPT ![r] = "get_names"]
    /\ pc' = [pc EXCEPT ![r] = "done"]
    /\ seenAt' = [seenAt EXCEPT ![r] = inserts]
    /\ IF storeUp
       THEN /\ outcome' = [outcome EXCEPT ![r] = Return(NamesPayload(find(names_collection)))]
            /\ UNCHANGED storeErr
       ELSE /\ storeErr' = [storeErr EXCEPT ![r] = @ + 1]
            /\ outcome' = [outcome EXCEPT ![r] = StoreError]
    /\ UNCHANGED <<names_collection, storeUp, entry, attempts, inserted, inserts>>

\* ---- the store's reachability ------------------------------------------
StoreFails ==
    /\ storeUp
    /\ storeUp' = FALSE
    /\ UNCHANGED <<names_collection, pc, route, entry, outcome, attempts,
                   inserted, storeErr, inserts, seenAt>>

StoreRecovers ==
    /\ ~storeUp
    /\ storeUp' = TRUE
    /\ UNCHANGED <<names_collection, pc, route, entry, outcome, attempts,
                   inserted, storeErr, inserts, seenAt>>

Next ==
    \/ \E r \in Req : health(r)
    \/ \E r \in Req : add_name_check(r)
    \/ \E r \in Req : add_name_insert(r)
    \/ \E r \in Req : get_names(r)
    \/ StoreFails
    \/ StoreRecovers

Spec == Init /\ [][Next]_vars

\* ---- vocabulary of the properties --------------------------------------
\* Stated without strip, so that each property is decided by the handlers.
IsBlank(s) == \A i \in 1..Len(s) : s[i] \in Whitespace

NoEdgeWhitespace(t) ==
    t = <<>> \/ (t[1] \notin Whitespace /\ t[Len(t)] \notin Whitespace)

\* t is s without its leading and trailing whitespace
IsTrimOf(t, s) ==
    /\ NoEdgeWhitespace(t)
    /\ \E i \in 0..Len(s) :
        /\ i + Len(t) <= Len(s)
        /\ \A k \in 1..i : s[k] \in Whitespace
        /\ \A k \in 1..Len(t) : s[i + k] = t[k]
        /\ \A k \in (i + Len(t) + 1)..Len(s) : s[k] \in Whitespace

Substrings(s) == {SubSeq(s, i, j) : i \in 1..(Len(s) + 1), j \in 0..Len(s)}

Trimmed(s) == CHOOSE t \in Substrings(s) : IsTrimOf(t, s)

Count(x, seq) == Cardinality({i \in 1..Len(seq) : seq[i] = x})

BagOfSeq(seq) == [x \in {seq[i] : i \in 1..Len(seq)} |-> Count(x, seq)]

\* what a list-names request returns when it reads the collection coll
Listing(coll) == NamesPayload(find(coll)).names

Returned(r) == pc[r] = "done" /\ outcome[r].kind = "return"
Raised(r) == pc[r] = "done" /\ outcome[r].kind = "raise"
AddOk(r) == route[r] = "add_name" /\ Returned(r)
ListOk(r) == route[r] = "get_names" /\ Returned(r)

\* the step in which request r's insert_one call returns
InsertStep(r) == pc[r] = "insert" /\ pc'[r] = "done" /\ outcome'[r].kind = "return"

\* ---- C1 ----------------------------------------------------------------
\* C1: when an add-name request with a non-blank text s succeeds, a listing
\* taken after it holds the trimmed form of s exactly once more than a
\* listing taken before it, also when that name was stored already.
C1_AddCountsOnce ==
    [][\A r \in Req :
        InsertStep(r) /\ ~IsBlank(entry[r]) =>
            \A t \in Substrings(entry[r]) :
                IsTrimOf(t, entry[r]) =>
                    Count(t, Listing(names_collection')) =
                        Count(t, Listing(names_collection)) + 1]_vars

\* two successful adds of the same name, one of them padded, both stored
C1_Witness ==
    \E r1, r2 \in Req :
        /\ r1 # r2 /\ AddOk(r1) /\ AddOk(r2)
        /\ entry[r1] # entry[r2]
        /\ outcome[r1].value.name = outcome[r2].value.name
        /\ Count(outcome[r1].value.name, Listing(names_collection)) = 2

\* ---- C2 ----------------------------------------------------------------
C2_Rejected(r) ==
    /\ pc[r] = "done"
    /\ outcome[r] = [kind |-> "raise", exc |-> "HTTPException",
                     status_code |-> 400, detail |-> "Name cannot be empty"]
    /\ attempts[r] = 0
    /\ inserted[r] = {}

\* C2: an add-name request whose text is empty or all whitespace is rejected
\* with HTTP 400, detail "Name cannot be empty", and the stored names are the
\* same before and after it.
C2_BlankRejected ==
    /\ [](\A r \in Req :
            route[r] = "add_name" /\ IsBlank(entry[r]) => C2_Rejected(r))
    /\ [][\A r \in Req :
            pc[r] = "idle" /\ route'[r] = "add_name" /\ IsBlank(entry'[r]) =>
                names_collection' = names_collection]_vars

\* a whitespace-only text was rejected while names were stored
C2_Witness ==
    \E r \in Req :
        /\ route[r] = "add_name" /\ entry[r] # <<>> /\ IsBlank(entry[r])
        /\ Raised(r)
        /\ names_collection # <<>>

\* ---- C3 ----------------------------------------------------------------
\* C3: in every reachable state no stored record has an empty or
\* whitespace-only name.
C3_NoBlankStored ==
    \A i \in 1..Len(names_collection) : ~IsBlank(names_collection[i].name)

\* records are stored, and blank texts were submitted along the way
C3_Witness ==
    /\ Len(names_collection) >= 2
    /\ \E r \in Req :
        route[r] = "add_name" /\ entry[r] # <<>> /\ IsBlank(entry[r])

\* ---- C4 ----------------------------------------------------------------
\* C4: a successful add-name request with text s stored exactly one record,
\* whose name is the trimmed s, and returned {message: "Name added", name: t}
\* with t that same stored name, free of leading and trailing whitespace.
C4_AddReturnsStored ==
    \A r \in Req :
        AddOk(r) =>
            /\ outcome[r].value.message = "Name added"
            /\ DOMAIN outcome[r].value = {"message", "name"}
            /\ IsTrimOf(outcome[r].value.name, entry[r])
            /\ NoEdgeWhitespace(outcome[r].value.name)
            /\ Cardinality(inserted[r]) = 1
            /\ \A id \in inserted[r] :
                /\ Cardinality({i \in 1..Len(names_collection) :
                                    names_collection[i]._id = id}) = 1
                /\ \A i \in 1..Len(names_collection) :
                    names_collection[i]._id = id =>
                        names_collection[i].name = outcome[r].value.name

\* a padded text was added: the response differs from the request text
C4_Witness ==
    \E r \in Req : AddOk(r) /\ outcome[r].value.name # entry[r]

\* ---- C5 ----------------------------------------------------------------
\* C5: the health check returns {status: "ok"} in every state, with the store
\* empty, populated or unreachable; it never fails and leaves the stored
\* names unchanged.
C5_HealthAlwaysOk ==
    /\ [](\A r \in Req :
            route[r] = "health" =>
                /\ pc[r] = "done"
                /\ outcome[r] = [kind |-> "return", value |-> [status |-> "ok"]])
    /\ [][\A r \in Req :
            pc[r] = "idle" /\ route'[r] = "health" =>
                /\ pc'[r] = "done"
                /\ names_collection' = names_collection]_vars

\* health answered on an empty store and again, after an add, with names
\* stored; the store is now unreachable
C5_Witness ==
    \E r1, r2 \in Req :
        /\ r1 < r2
        /\ route[r1] = "health" /\ route[r2] = "health"
        /\ Returned(r1) /\ Returned(r2)
        /\ \E q \in Req : r1 < q /\ q < r2 /\ AddOk(q)
        /\ names_collection # <<>>
        /\ ~storeUp

\* ---- C6 ----------------------------------------------------------------
\* a list-names request served before any insertion took effect
ListedEmptyStore(r) == route[r] = "get_names" /\ pc[r] = "done" /\ seenAt[r] = 0

C7_ListingIdempotent ==
    /\ [](\A r1, r2 \in Req :
            ListOk(r1) /\ ListOk(r2) /\ seenAt[r1] = seenAt[r2] =>
                outcome[r1].value.names = outcome[r2].value.names)
    /\ [][\A r \in Req :
            pc[r] = "idle" /\ route'[r] = "get_names" =>
                names_collection' = names_collection]_vars

\* two listings of the same non-empty store
C7_Witness ==
    \E r1, r2 \in Req :
        /\ r1 < r2 /\ ListOk(r1) /\ ListOk(r2)
        /\ seenAt[r1] = seenAt[r2]
        /\ seenAt[r1] > 0

\* ---- C8 ----------------------------------------------------------------
\* C8: records are never changed or deleted: of two list-names results, the
\* later holds every name at least as often as the earlier; the collection
\* only grows, and only in a step where an add-name request succeeds.
C8_OnlyGrows ==
    /\ [](\A r1, r2 \in Req :
            ListOk(r1) /\ ListOk(r2) /\ seenAt[r1] <= seenAt[r2] =>
                LET n1 == outcome[r1].value.names
                    n2 == outcome[r2].value.names
                IN  \A i \in 1..Len(n1) : Count(n1[i], n1) <= Count(n1[i], n2))
    /\ [][/\ \A i \in 1..Len(names_collection) :
                Count(names_collection[i], names_collection) <=
                    Count(names_collection[i], names_collection')
          /\ names_collection' # names_collection =>
                /\ Len(names_collection') = Len(names_collection) + 1
                /\ \E r \in Req : InsertStep(r)]_vars

\* a listing, then an insertion, then a longer listing
C8_Witness ==
    \E r1, r2 \in Req :
        /\ ListOk(r1) /\ ListOk(r2)
        /\ seenAt[r1] < seenAt[r2]
        /\ Len(outcome[r1].value.names) < Len(outcome[r2].value.names)

\* ---- C9 ----------------------------------------------------------------
\* C9: a store failure during add-name or list-names is not caught,
\* translated or retried: the request ends with the store's exception (not
\* the 400 error, not a success payload), add-name calls insert_one at most
\* once per request, and a failed add leaves no record stored.
C9_StoreFailurePropagates ==
    \A r \in Req :
        /\ attempts[r] <= 1
        /\ storeErr[r] > 0 =>
            /\ pc[r] = "done"
            /\ outcome[r].kind = "raise"
            /\ outcome[r].exc = "PyMongoError"
            /\ inserted[r] = {}
            /\ storeErr[r] = 1

\* an add and a listing both hit an unreachable store
C9_Witness ==
    \E r1, r2 \in Req :
        /\ route[r1] = "add_name" /\ storeErr[r1] > 0
        /\ route[r2] = "get_names" /\ storeErr[r2] > 0

\* ---- C10 ---------------------------------------------------------------
Quiescent == \A r \in Req : pc[r] \in {"idle", "done"}

AddOkSet == {r \in Req : AddOk(r)}

\* the trimmed texts of the add-name requests that returned success
AddedBag ==
    [t \in {Trimmed(entry[r]) : r \in AddOkSet} |->
        Cardinality({r \in AddOkSet : Trimmed(entry[r]) = t})]

\* C10: under any interleaving no insertion is lost or duplicated: once all
\* requests have completed, the names a listing returns are, as a multiset,
\* the trimmed texts of the add-name requests that returned success, and
\* every listing returned during the run is a sub-multiset of it.
C10_NoLostInsert ==
    Quiescent =>
        /\ BagOfSeq(Listing(names_collection)) = AddedBag
        /\ \A r \in Req :
            ListOk(r) =>
                BagOfSeq(outcome[r].value.names) \sqsubseteq
                    BagOfSeq(Listing(names_collection))

\* two overlapping adds, the later arrival inserting first, and a listing
\* served between the two insertions
C10_Witness ==
    /\ Quiescent
    /\ \E r1, r2, r3 \in Req :
        /\ r1 < r2 /\ AddOk(r1) /\ AddOk(r2) /\ ListOk(r3)
        /\ \A i \in inserted[r1] : \A j \in inserted[r2] : j < i
        /\ seenAt[r3] = 1

====
